---- MODULE Spec2Model ----
(***************************************************************************)
(* Model of the signature-injection backend: the /sign-pdf pipeline of     *)
(* src/signPdf.js, its helpers validateCoordinates and                     *)
(* calculateImageDimensions, and the Audit model of src/Audit.js.          *)
(***************************************************************************)
EXTENDS Integers, Sequences, FiniteSets, TLC

(***************************************************************************)
(* Bounds of the model.                                                    *)
(***************************************************************************)
\* JS numbers of a request are modelled on a grid of 1/Denom: the integer k
\* is the model value k * Denom, and 1 + 1/Denom is a fractional number.
Denom == 2
\* longest field list of a request body
MaxFields == 2
\* the source document has 1..MaxPages pages
MaxPages == 2
\* Date.now() ranges over 0..MaxClock
MaxClock == 2
\* number of sign requests in flight in the concurrent specification
NumConc == 2

(***************************************************************************)
(* JavaScript values as they arrive in a JSON body.                        *)
(***************************************************************************)
Undef == [t |-> "undefined", n |-> 0, s |-> ""]
Null == [t |-> "null", n |-> 0, s |-> ""]
Num(k) == [t |-> "number", n |-> k, s |-> ""]
Str(x) == [t |-> "string", n |-> 0, s |-> x]
Int2Num(k) == Num(k * Denom)

\* JS truthiness of a value: undefined, null, "" and 0 are falsy
Truthy(v) ==
  CASE v.t = "undefined" -> FALSE
    [] v.t = "null" -> FALSE
    [] v.t = "string" -> v.s # ""
    [] v.t = "number" -> v.n # 0
    [] OTHER -> TRUE

SeqMin(a, b) == IF a <= b THEN a ELSE b

RECURSIVE SetMax(_)
SetMax(S) ==
  LET x == CHOOSE y \in S : TRUE
  IN IF S = {x} THEN x
     ELSE LET m == SetMax(S \ {x}) IN IF x >= m THEN x ELSE m

(***************************************************************************)
(* validateCoordinates (src/signPdf.js 26-36)                              *)
(***************************************************************************)
IsNumber(v) == v.t = "number"

validateCoordinatesZeroWidth(coordinates) ==
  IF coordinates.t # "object" THEN FALSE
  ELSE /\ IsNumber(coordinates.x) /\ coordinates.x.n >= 0
       /\ IsNumber(coordinates.y) /\ coordinates.y.n >= 0
       /\ IsNumber(coordinates.width) /\ coordinates.width.n >= 0
       /\ IsNumber(coordinates.height) /\ coordinates.height.n > 0
       /\ IsNumber(coordinates.page) /\ coordinates.page.n >= Denom

validateCoordinates(coordinates) ==
  IF coordinates.t # "object" THEN FALSE
  ELSE /\ IsNumber(coordinates.x) /\ coordinates.x.n >= 0
       /\ IsNumber(coordinates.y) /\ coordinates.y.n >= 0
       /\ IsNumber(coordinates.width) /\ coordinates.width.n > 0
       /\ IsNumber(coordinates.height) /\ coordinates.height.n > 0
       /\ IsNumber(coordinates.page) /\ coordinates.page.n >= Denom

(***************************************************************************)
(* JS numbers in calculateImageDimensions are IEEE-754 binary64: every     *)
(* operation returns the exact result rounded to Prec significant bits,    *)
(* ties to even. Significands are naturals held as sequences of limbs,     *)
(* least significant first, without leading zero limbs.                    *)
(***************************************************************************)
Prec == 53

LimbBase == 2^15

RECURSIVE BNorm(_)
BNorm(a) ==
  IF a = <<>> THEN <<>>
  ELSE IF a[Len(a)] = 0 THEN BNorm(SubSeq(a, 1, Len(a) - 1))
  ELSE a

RECURSIVE BFromInt(_)
BFromInt(n) ==
  IF n = 0 THEN <<>> ELSE <<n % LimbBase>> \o BFromInt(n \div LimbBase)

Limb(a, i) == IF i <= Len(a) THEN a[i] ELSE 0

RECURSIVE BAddC(_, _, _, _)
BAddC(a, b, i, c) ==
  IF i > Len(a) /\ i > Len(b)
  THEN IF c = 0 THEN <<>> ELSE <<c>>
  ELSE LET x == Limb(a, i) + Limb(b, i) + c
       IN <<x % LimbBase>> \o BAddC(a, b, i + 1, x \div LimbBase)

BAdd(a, b) == BAddC(a, b, 1, 0)

\* a - b for a >= b
RECURSIVE BSubC(_, _, _, _)
BSubC(a, b, i, c) ==
  IF i > Len(a) THEN <<>>
  ELSE LET x == Limb(a, i) - Limb(b, i) - c
       IN IF x < 0 THEN <<x + LimbBase>> \o BSubC(a, b, i + 1, 1)
          ELSE <<x>> \o BSubC(a, b, i + 1, 0)

BSub(a, b) == BNorm(BSubC(a, b, 1, 0))

\* -1, 0, 1 as a < b, a = b, a > b
RECURSIVE BCmpAt(_, _, _)
BCmpAt(a, b, i) ==
  IF i = 0 THEN 0
  ELSE IF a[i] < b[i] THEN -1
  ELSE IF a[i] > b[i] THEN 1
  ELSE BCmpAt(a, b, i - 1)

BCmp(a, b) ==
  IF Len(a) < Len(b) THEN -1
  ELSE IF Len(a) > Len(b) THEN 1
  ELSE BCmpAt(a, b, Len(a))

RECURSIVE BMulSmallC(_, _, _, _)
BMulSmallC(a, d, i, c) ==
  IF i > Len(a)
  THEN IF c = 0 THEN <<>> ELSE <<c>>
  ELSE LET x == a[i] * d + c
       IN <<x % LimbBase>> \o BMulSmallC(a, d, i + 1, x \div LimbBase)

BMulSmall(a, d) == BNorm(BMulSmallC(a, d, 1, 0))

RECURSIVE BMul(_, _)
BMul(a, b) ==
  IF b = <<>> THEN <<>>
  ELSE BNorm(BAdd(BMulSmall(a, b[1]), <<0>> \o BMul(a, Tail(b))))

BOdd(a) == a # <<>> /\ a[1] % 2 = 1

BHalve(a) ==
  BNorm([i \in 1..Len(a) |->
           (a[i] \div 2) + (Limb(a, i + 1) % 2) * (LimbBase \div 2)])

RECURSIVE IntBitLen(_)
IntBitLen(n) == IF n = 0 THEN 0 ELSE 1 + IntBitLen(n \div 2)

BBitLen(a) == IF a = <<>> THEN 0 ELSE (Len(a) - 1) * 15 + IntBitLen(a[Len(a)])

\* a * 2^k
BShl(a, k) ==
  IF a = <<>> THEN <<>>
  ELSE [i \in 1..(k \div 15) |-> 0] \o BMulSmall(a, 2^(k % 15))

\* i more steps of long division by d: quotient q and remainder r < d so far
RECURSIVE BDivStep(_, _, _, _)
BDivStep(d, i, q, r) ==
  IF i = 0 THEN [q |-> q, r |-> r]
  ELSE IF Len(q) >= 0 /\ BCmp(BAdd(r, r), d) >= 0
  THEN BDivStep(d, i - 1, BAdd(BAdd(q, q), <<1>>), BSub(BAdd(r, r), d))
  ELSE BDivStep(d, i - 1, BAdd(q, q), BAdd(r, r))

\* quotient and remainder of n * 2^k by d, for n < 2 * d: the first quotient
\* bit, then k steps in two runs
BDivMod(n, k, d) ==
  LET first == IF BCmp(n, d) >= 0 THEN [q |-> <<1>>, r |-> BSub(n, d)]
               ELSE [q |-> <<>>, r |-> n]
      mid == BDivStep(d, k \div 2, first.q, first.r)
  IN BDivStep(d, k - (k \div 2), mid.q, mid.r)

\* a binary64 value: sign s, significand m of exactly Prec bits, value
\* s * m * 2^e; zero has s = 0
FZero == [s |-> 0, m |-> <<>>, e |-> 0]

\* s * n * 2^e, with sticky set when bits below n were already dropped,
\* rounded to nearest, ties to even
RECURSIVE Round(_, _, _, _)
Round(s, n, e, sticky) ==
  IF n = <<>> THEN FZero
  ELSE IF BBitLen(n) <= Prec
  THEN [s |-> s, m |-> BShl(n, Prec - BBitLen(n)), e |-> e - (Prec - BBitLen(n))]
  ELSE IF BBitLen(n) > Prec + 1
  THEN Round(s, BHalve(n), e + 1, sticky \/ BOdd(n))
  ELSE LET q == BHalve(n)
           up == BOdd(n) /\ (sticky \/ BOdd(q))
           m == IF up THEN BAdd(q, <<1>>) ELSE q
       IN IF BBitLen(m) > Prec
          THEN [s |-> s, m |-> BHalve(m), e |-> e + 2]
          ELSE [s |-> s, m |-> m, e |-> e + 1]

FromInt(k) ==
  IF k = 0 THEN FZero
  ELSE Round(IF k < 0 THEN -1 ELSE 1, BFromInt(IF k < 0 THEN -k ELSE k), 0, FALSE)

\* a / b, b nonzero
FDiv(a, b) ==
  IF a.s = 0 THEN FZero
  ELSE LET d == BDivMod(a.m, Prec + 2, b.m)
       IN Round(a.s * b.s, d.q, a.e - b.e - (Prec + 2), d.r # <<>>)

FMulExact(a, b) ==
  IF a.s = 0 \/ b.s = 0 THEN FZero
  ELSE [s |-> a.s * b.s, m |-> BMul(a.m, b.m), e |-> a.e + b.e]

\* a * b
FMul(a, b) ==
  IF a.s = 0 \/ b.s = 0 THEN FZero
  ELSE Round(a.s * b.s, BMul(a.m, b.m), a.e + b.e, FALSE)

\* -1, 0, 1 as |a| < |b|, |a| = |b|, |a| > |b|, for nonzero a and b
FCmpAbs(a, b) ==
  IF a.e < b.e THEN -1
  ELSE IF a.e > b.e THEN 1
  ELSE BCmp(a.m, b.m)

\* -1, 0, 1 as a < b, a = b, a > b
FCmp(a, b) ==
  IF a.s # b.s THEN (IF a.s < b.s THEN -1 ELSE 1)
  ELSE IF a.s = 0 THEN 0
  ELSE a.s * FCmpAbs(a, b)

FNeg(a) == [a EXCEPT !.s = -@]

\* a + b
FAdd(a, b) ==
  IF a.s = 0 THEN b
  ELSE IF b.s = 0 THEN a
  ELSE LET e == SeqMin(a.e, b.e)
           x == BShl(a.m, a.e - e)
           y == BShl(b.m, b.e - e)
       IN IF a.s = b.s THEN Round(a.s, BAdd(x, y), e, FALSE)
          ELSE IF BCmp(x, y) = 0 THEN FZero
          ELSE IF BCmp(x, y) > 0 THEN Round(a.s, BSub(x, y), e, FALSE)
          ELSE Round(b.s, BSub(y, x), e, FALSE)

FSub(a, b) == FAdd(a, FNeg(b))

\* a / 2 is exact
FHalf(a) == IF a.s = 0 THEN FZero ELSE [a EXCEPT !.e = @ - 1]

(***************************************************************************)
(* calculateImageDimensions (src/signPdf.js 39-57)                         *)
(***************************************************************************)
calculateImageDimensions(image, maxWidth, maxHeight) ==
  LET imageAspectRatio == FDiv(image.width, image.height)
      boxAspectRatio == FDiv(maxWidth, maxHeight)
      wider == FCmp(imageAspectRatio, boxAspectRatio) > 0
      width == IF wider THEN maxWidth ELSE FMul(maxHeight, imageAspectRatio)
      height == IF wider THEN FDiv(maxWidth, imageAspectRatio) ELSE maxHeight
  IN [width |-> width, height |-> height,
      xOffset |-> FHalf(FSub(maxWidth, width)),
      yOffset |-> FHalf(FSub(maxHeight, height))]

(***************************************************************************)
(* State.                                                                  *)
(***************************************************************************)
VARIABLES
  fs,      \* the file system: path -> bytes, or Absent
  now,     \* the value Date.now() returns
  ledger,  \* the audits collection, in insertion order; _id is the position
  pc,      \* per sign request: where its handler stands
  body,    \* per sign request: req.body
  loc,     \* per sign request: the handler's local variables
  res,     \* per sign request: the response sent (status 0: none yet)
  call     \* the last call of a pure helper, with its result

vars == <<fs, now, ledger, pc, body, loc, res, call>>

Reqs == DOMAIN pc

(***************************************************************************)
(* Files. A file name is a stem and, for signed_<timestamp>.pdf, the       *)
(* timestamp; bytes are a document: its page count and the drawing         *)
(* operations on its pages.                                                *)
(***************************************************************************)
SIGNED_DIR == "signed-pdfs"
PUBLIC_DIR == "public"

SampleName == [stem |-> "sample", ts |-> 0]

signedPdfFilenameFixed(timestamp) == SampleName

\* `signed_${timestamp}.pdf`
signedPdfFilename(timestamp) == [stem |-> "signed_", ts |-> timestamp]

Names == {SampleName} \cup {signedPdfFilename(t) : t \in 0..MaxClock}

PathJoin(dir, name) == [dir |-> dir, name |-> name]

Paths == {PathJoin(d, n) : d \in {SIGNED_DIR, PUBLIC_DIR}, n \in Names}

originalPdfPath == PathJoin(PUBLIC_DIR, SampleName)

Absent == [kind |-> "absent", pages |-> 0, ops |-> <<>>]

SourceBytes(n) == [kind |-> "source", pages |-> n, ops |-> <<>>]

\* ../utils/hash.js is not part of the sources: a deterministic digest that
\* distinguishes different byte sequences
calculateSHA256(bytes) == [sha256 |-> bytes]

NoHash == [sha256 |-> Absent]

\* PDFDocument.load(bytes) followed by getPages()
PDFLoad(bytes) == [pages |-> bytes.pages, ops |-> bytes.ops]

\* pdfDoc.save(): the document as re-serialised by the library
PDFSave(doc) == [kind |-> "pdf-lib", pages |-> doc.pages, ops |-> doc.ops]

(***************************************************************************)
(* Request bodies.                                                         *)
(***************************************************************************)
Coords(x, y, width, height, page) ==
  [t |-> "object", x |-> x, y |-> y, width |-> width, height |-> height,
   page |-> page]

Field(type, pdfCoordinates, value) ==
  [t |-> "object", type |-> type, pdfCoordinates |-> pdfCoordinates,
   value |-> value]

Array(items) == [t |-> "array", items |-> items]

FieldTypes == {"signature", "text", "date", "radio", "image"}

\* a valid box on page k / Denom
Box(k) == Coords(Int2Num(1), Int2Num(0), Int2Num(4), Int2Num(2), Num(k))

\* page numbers of a request: 1 .. MaxPages + 1, and the fractional 1 + 1/Denom
PageNumbers == {k * Denom : k \in 1..(MaxPages + 1)} \cup {Denom + 1}

GoodCoords == {Box(k) : k \in PageNumbers}

BadCoords ==
  { Undef,
    Coords(Int2Num(1), Int2Num(0), Int2Num(0), Int2Num(2), Int2Num(1)) }

PngOk == Str("data:image/png;base64,iVBORw0KGgo")
JpgOk == Str("data:image/jpeg;base64,/9j/4AAQ")
Corrupt == Str("data:image/png;base64,@@@@")

SignatureImages == {Undef, PngOk, JpgOk, Corrupt}

\* the fields a request may carry: every type on page 1 (text without a
\* value), a text on every page number, a signature on a fractional page, a
\* value on a field that is not a text, a type outside the schema's enum,
\* malformed coordinates, and a null element
FieldPool ==
  {Field(ty, Box(Denom), Undef) : ty \in FieldTypes}
  \cup {Field("text", c, Str("Alice")) : c \in GoodCoords}
  \cup {Field("signature", Box(Denom + 1), Undef)}
  \cup {Field("signature", Box(Denom), PngOk)}
  \cup {Field("checkbox", Box(Denom), Undef)}
  \cup {Field("text", c, Str("Alice")) : c \in BadCoords}
  \cup {Null}

RECURSIVE SeqsUpTo(_, _)
SeqsUpTo(S, n) ==
  IF n = 0 THEN {<<>>}
  ELSE LET shorter == SeqsUpTo(S, n - 1)
       IN shorter \cup {Append(q, e) : q \in {z \in shorter : Len(z) = n - 1}, e \in S}

Bodies ==
  {[pdfId |-> Str("doc1"), fields |-> Array(fl), signatureImage |-> img] :
      fl \in SeqsUpTo(FieldPool, MaxFields), img \in SignatureImages}
  \cup {[pdfId |-> id, fields |-> fv, signatureImage |-> Undef] :
      id \in {Undef, Str(""), Str("doc1")},
      fv \in {Undef, Str("x"), Array(<<Field("date", Box(Denom), Undef)>>),
              Array(<<Field("text", Undef, Undef)>>)}}

\* the bodies of the concurrent specification
ConcBodies ==
  {[pdfId |-> Str("doc1"), fields |-> Array(fl), signatureImage |-> Undef] :
      fl \in {<<Field("date", Box(Denom), Undef)>>,
              <<Field("text", Undef, Undef)>>}}

(***************************************************************************)
(* The Audit model (src/Audit.js).                                         *)
(***************************************************************************)
DefaultMetadata == [totalFields |-> 0, hasSignature |-> FALSE, pageCount |-> Denom]

\* coordinateSchema: the five declared paths are kept, anything else dropped
CastCoordinates(c) ==
  IF c.t # "object" THEN Undef
  ELSE Coords(c.x, c.y, c.width, c.height, c.page)

\* fieldSchema: value is a String with default ''
CastField(f) ==
  [type |-> f.type,
   coordinates |-> CastCoordinates(f.coordinates),
   value |-> IF f.value.t = "undefined" THEN Str("") ELSE f.value]

\* new Audit(doc): the document cast to auditSchema, defaults applied
NewAudit(doc) ==
  [pdfId |-> doc.pdfId,
   originalHash |-> doc.originalHash,
   signedHash |-> doc.signedHash,
   fields |-> [i \in 1..Len(doc.fields) |-> CastField(doc.fields[i])],
   timestamp |-> doc.timestamp,
   ipAddress |-> doc.ipAddress,
   userAgent |-> doc.userAgent,
   metadata |-> IF doc.metadata.t = "undefined" THEN DefaultMetadata
                ELSE doc.metadata.v]

\* the schema's validators: required paths, the type enum, page min 1
CoordinatesValid(c) ==
  /\ c.t = "object"
  /\ \A m \in {c.x, c.y, c.width, c.height, c.page} : m.t = "number"
  /\ c.page.n >= Denom

AuditValid(a) ==
  /\ a.pdfId.t = "string" /\ a.pdfId.s # ""
  /\ a.originalHash # NoHash
  /\ a.signedHash # NoHash
  /\ \A i \in 1..Len(a.fields) :
        /\ a.fields[i].type \in FieldTypes
        /\ CoordinatesValid(a.fields[i].coordinates)

PreSaveNoFloor(a) ==
  [a EXCEPT !.metadata =
     [totalFields |-> Len(a.fields),
      hasSignature |-> \E i \in 1..Len(a.fields) : a.fields[i].type = "signature",
      pageCount |-> IF Len(a.fields) = 0 THEN 0
                    ELSE SetMax({a.fields[i].coordinates.page.n : i \in 1..Len(a.fields)})]]

\* auditSchema.pre('save')
PreSave(a) ==
  [a EXCEPT !.metadata =
     [totalFields |-> Len(a.fields),
      hasSignature |-> \E i \in 1..Len(a.fields) : a.fields[i].type = "signature",
      pageCount |-> SetMax({a.fields[i].coordinates.page.n : i \in 1..Len(a.fields)}
                           \cup {Denom})]]

\* audit.save(): validation, then the pre-save hook, then the insert
AuditSave(doc, dbUp) ==
  IF dbUp /\ AuditValid(NewAudit(doc))
  THEN /\ ledger' = Append(ledger, PreSave(NewAudit(doc)))
  ELSE /\ ledger' = ledger

AuditSavedUnchecked(doc, dbUp) == TRUE

AuditSaved(doc, dbUp) == dbUp /\ AuditValid(NewAudit(doc))

(***************************************************************************)
(* The /sign-pdf handler (src/signPdf.js 61-205), one action per segment   *)
(* between two awaits.                                                     *)
(***************************************************************************)
NoDoc == [pages |-> 0, ops |-> <<>>]

NoLoc ==
  [originalHash |-> NoHash, pdfDoc |-> NoDoc, idx |-> 0,
   signedPdfBytes |-> Absent, signedHash |-> NoHash, timestamp |-> 0,
   signedPdfFilename |-> SampleName, auditId |-> 0]

NoRes ==
  [status |-> 0, error |-> "", details |-> "", n |-> 0, originalHash |-> NoHash,
   signedHash |-> NoHash, auditId |-> 0, signedPdfUrl |-> SampleName]

ClientError(msg, n) == [NoRes EXCEPT !.status = 400, !.error = msg, !.n = n]

NotFound(msg) == [NoRes EXCEPT !.status = 404, !.error = msg]

\* the catch of line 201
ServerError(message) ==
  [NoRes EXCEPT !.status = 500, !.error = "Failed to sign PDF", !.details = message]

Finish(r, response) ==
  /\ res' = [res EXCEPT ![r] = response]
  /\ pc' = [pc EXCEPT ![r] = "done"]

\* a request arrives; requests are numbered in their order of arrival
Submit(r, pool) ==
  /\ pc[r] = "idle"
  /\ \A q \in Reqs : q < r => pc[q] # "idle"
  /\ \E b \in pool : body' = [body EXCEPT ![r] = b]
  /\ pc' = [pc EXCEPT ![r] = "start"]
  /\ UNCHANGED <<fs, now, ledger, loc, res, call>>

HasNullField(fields) == \E i \in 1..Len(fields) : fields[i].t = "null"

invalidFields(fields) ==
  SelectSeq(fields, LAMBDA f : ~validateCoordinates(f.pdfCoordinates))

\* lines 63-81: the request checks, up to the await of fs.pathExists
Validate(r) ==
  /\ pc[r] = "start"
  /\ IF ~Truthy(body[r].pdfId) \/ body[r].fields.t # "array"
     THEN Finish(r, ClientError("Missing required fields: pdfId and fields array are required", 0))
     ELSE IF HasNullField(body[r].fields.items)
     THEN Finish(r, ServerError("Cannot read properties of null (reading 'pdfCoordinates')"))
     ELSE IF Len(invalidFields(body[r].fields.items)) > 0
     THEN Finish(r, ClientError("Invalid coordinates for n field(s)",
                                Len(invalidFields(body[r].fields.items))))
     ELSE /\ pc' = [pc EXCEPT ![r] = "pathExists"]
          /\ res' = res
  /\ UNCHANGED <<fs, now, ledger, body, loc, call>>

\* lines 81-85: fs.pathExists has answered
CheckSource(r) ==
  /\ pc[r] = "pathExists"
  /\ IF fs[originalPdfPath] = Absent
     THEN Finish(r, NotFound("Sample PDF not found"))
     ELSE /\ pc' = [pc EXCEPT ![r] = "readFile"]
          /\ res' = res
  /\ UNCHANGED <<fs, now, ledger, body, loc, call>>

\* lines 85-89: fs.readFile has answered; hash the bytes, start the load
ReadSource(r) ==
  /\ pc[r] = "readFile"
  /\ \E ok \in BOOLEAN :
       IF ok /\ fs[originalPdfPath] # Absent
       THEN /\ loc' = [loc EXCEPT ![r].originalHash = calculateSHA256(fs[originalPdfPath]),
                                  ![r].pdfDoc = PDFLoad(fs[originalPdfPath]),
                                  ![r].idx = 1]
            /\ pc' = [pc EXCEPT ![r] = "render"]
            /\ res' = res
       ELSE /\ Finish(r, ServerError("EIO: readFile"))
            /\ loc' = loc
  /\ UNCHANGED <<fs, now, ledger, body, call>>

\* line 97: Math.min(page - 1, pages.length - 1), on the grid of 1/Denom
pageIndex(page, npages) == SeqMin(page.n - Denom, (npages - 1) * Denom)

\* line 98: pages[pageIndex] is a page only for an integer index in range
PageDefined(index, npages) ==
  index % Denom = 0 /\ index >= 0 /\ index < npages * Denom

\* lines 104-108: the media-type prefix picks embedPng or embedJpg, which
\* succeeds only on a payload of that encoding
isPng(signatureImage) == signatureImage \in {PngOk, Corrupt}

Payload(signatureImage) ==
  CASE signatureImage = PngOk -> "png"
    [] signatureImage = JpgOk -> "jpeg"
    [] OTHER -> "garbage"

EmbedOk(signatureImage) ==
  IF isPng(signatureImage) THEN Payload(signatureImage) = "png"
  ELSE Payload(signatureImage) = "jpeg"

Op(kind, page, text) == [kind |-> kind, page |-> page, text |-> text]

\* lines 101-133: case 'signature'
SignatureOps(signatureImage, pg) ==
  IF Truthy(signatureImage)
  THEN IF EmbedOk(signatureImage)
       THEN <<Op("drawImage", pg, "")>>
       ELSE <<Op("drawRectangle", pg, ""), Op("drawText", pg, "SIGNATURE")>>
  ELSE <<>>

\* lines 100-159: the drawing calls of one field, in order
FieldOps(field, signatureImage, pg) ==
  CASE field.type = "signature" -> SignatureOps(signatureImage, pg)
    [] field.type = "text" ->
         IF Truthy(field.value)
         THEN <<Op("drawRectangle", pg, ""), Op("drawText", pg, field.value.s)>>
         ELSE <<>>
    [] field.type = "date" ->
         <<Op("drawRectangle", pg, ""), Op("drawText", pg, "toLocaleDateString")>>
    [] field.type = "radio" -> <<Op("drawCircle", pg, "")>>
    [] field.type = "image" ->
         <<Op("drawRectangle", pg, ""), Op("drawText", pg, "[IMAGE]")>>
    [] OTHER -> <<>>

DrawError(field) ==
  IF field.type = "radio"
  THEN "Cannot read properties of undefined (reading 'drawCircle')"
  ELSE "Cannot read properties of undefined (reading 'drawRectangle')"

\* lines 92-160: one iteration of the loop over the fields. A drawing call on
\* pages[pageIndex] = undefined throws a TypeError, which reaches line 201
\* (from the signature case too: its catch block draws on the same page).
RenderField(r) ==
  /\ pc[r] = "render"
  /\ loc[r].idx <= Len(body[r].fields.items)
  /\ LET field == body[r].fields.items[loc[r].idx]
         skip == field.pdfCoordinates.t # "object"
         index == IF skip THEN 0
                  ELSE pageIndex(field.pdfCoordinates.page, loc[r].pdfDoc.pages)
         ops == IF skip THEN <<>>
                ELSE FieldOps(field, body[r].signatureImage, index \div Denom)
     IN IF ops # <<>> /\ ~PageDefined(index, loc[r].pdfDoc.pages)
        THEN /\ Finish(r, ServerError(DrawError(field)))
             /\ loc' = loc
        ELSE /\ loc' = [loc EXCEPT ![r].pdfDoc.ops = @ \o ops, ![r].idx = @ + 1]
             /\ UNCHANGED <<pc, res>>
  /\ UNCHANGED <<fs, now, ledger, body, call>>

\* lines 163-169: pdfDoc.save() has answered; hash, timestamp, file name
Serialize(r) ==
  /\ pc[r] = "render"
  /\ loc[r].idx > Len(body[r].fields.items)
  /\ loc' = [loc EXCEPT ![r].signedPdfBytes = PDFSave(loc[r].pdfDoc),
                        ![r].signedHash = calculateSHA256(PDFSave(loc[r].pdfDoc)),
                        ![r].timestamp = now,
                        ![r].signedPdfFilename = signedPdfFilename(now)]
  /\ pc' = [pc EXCEPT ![r] = "writeFile"]
  /\ UNCHANGED <<fs, now, ledger, body, res, call>>

\* line 169: fs.writeFile(signedPdfPath, signedPdfBytes)
WriteSigned(r) ==
  /\ pc[r] = "writeFile"
  /\ \E ok \in BOOLEAN :
       IF ok
       THEN /\ fs' = [fs EXCEPT ![PathJoin(SIGNED_DIR, loc[r].signedPdfFilename)] =
                                   loc[r].signedPdfBytes]
            /\ pc' = [pc EXCEPT ![r] = "copy"]
            /\ res' = res
       ELSE /\ Finish(r, ServerError("EIO: writeFile"))
            /\ fs' = fs
  /\ UNCHANGED <<now, ledger, body, loc, call>>

\* lines 172-173: fs.copy(signedPdfPath, publicPath, { overwrite: true })
CopyPublic(r) ==
  /\ pc[r] = "copy"
  /\ \E ok \in BOOLEAN :
       IF ok
       THEN /\ fs' = [fs EXCEPT ![PathJoin(PUBLIC_DIR, loc[r].signedPdfFilename)] =
                                   fs[PathJoin(SIGNED_DIR, loc[r].signedPdfFilename)]]
            /\ pc' = [pc EXCEPT ![r] = "audit"]
            /\ res' = res
       ELSE /\ Finish(r, ServerError("EIO: copy"))
            /\ fs' = fs
  /\ UNCHANGED <<now, ledger, body, loc, call>>

AuditFieldsKeepValue(fields) ==
  [i \in 1..Len(fields) |->
     [type |-> fields[i].type,
      coordinates |-> fields[i].pdfCoordinates,
      value |-> fields[i].value]]

\* lines 181-185: fields.map(f => ({ type, coordinates, value }))
AuditFields(fields) ==
  [i \in 1..Len(fields) |->
     [type |-> fields[i].type,
      coordinates |-> fields[i].pdfCoordinates,
      value |-> IF fields[i].type = "text" THEN fields[i].value ELSE Undef]]

\* lines 177-189: the document handed to new Audit
AuditDoc(r) ==
  [pdfId |-> body[r].pdfId,
   originalHash |-> loc[r].originalHash,
   signedHash |-> loc[r].signedHash,
   fields |-> AuditFields(body[r].fields.items),
   timestamp |-> now,
   ipAddress |-> "req.ip",
   userAgent |-> "User-Agent",
   metadata |-> Undef]

\* lines 177-190: new Audit(...) and audit.save()
SaveAudit(r) ==
  /\ pc[r] = "audit"
  /\ \E dbUp \in BOOLEAN :
       /\ AuditSave(AuditDoc(r), dbUp)
       /\ IF AuditSaved(AuditDoc(r), dbUp)
          THEN /\ loc' = [loc EXCEPT ![r].auditId = Len(ledger) + 1]
               /\ pc' = [pc EXCEPT ![r] = "respond"]
               /\ res' = res
          ELSE /\ Finish(r, ServerError(IF dbUp THEN "Audit validation failed"
                                        ELSE "MongoNetworkError"))
               /\ loc' = loc
  /\ UNCHANGED <<fs, now, body, call>>

\* lines 192-200: the success response
Respond(r) ==
  /\ pc[r] = "respond"
  /\ Finish(r, [NoRes EXCEPT !.status = 200,
                             !.signedPdfUrl = loc[r].signedPdfFilename,
                             !.originalHash = loc[r].originalHash,
                             !.signedHash = loc[r].signedHash,
                             !.auditId = loc[r].auditId])
  /\ UNCHANGED <<fs, now, ledger, body, loc, call>>

\* time passes
Tick ==
  /\ now < MaxClock
  /\ now' = now + 1
  /\ UNCHANGED <<fs, ledger, pc, body, loc, res, call>>

(***************************************************************************)
(* The read-only endpoints (src/signPdf.js 209-241). Each answers from     *)
(* what it reads and writes nothing.                                       *)
(***************************************************************************)
DownloadStatus(name) ==
  IF fs[PathJoin(SIGNED_DIR, name)] = Absent THEN 404 ELSE 200

\* GET /download/:filename
Download(name) ==
  /\ DownloadStatus(name) \in {200, 404}
  /\ UNCHANGED vars

GetAuditStatus(id) == IF id \in 1..Len(ledger) THEN 200 ELSE 404

\* GET /audit/:id
GetAudit(id) ==
  /\ GetAuditStatus(id) \in {200, 404}
  /\ UNCHANGED vars

\* GET /audits: find().sort({ timestamp: -1 }).limit(50)
ListAudits ==
  /\ Len(ledger) >= 0
  /\ UNCHANGED vars

(***************************************************************************)
(* The pipeline's specifications.                                          *)
(***************************************************************************)
\* the base document is absent, or present with one of the given page counts
InitWith(n, pageCounts) ==
  /\ \E src \in {Absent} \cup {SourceBytes(k) : k \in pageCounts} :
        fs = [p \in Paths |-> IF p = originalPdfPath THEN src ELSE Absent]
  /\ now = 0
  /\ ledger = <<>>
  /\ pc = [r \in 1..n |-> "idle"]
  /\ body = [r \in 1..n |-> [pdfId |-> Undef, fields |-> Undef, signatureImage |-> Undef]]
  /\ loc = [r \in 1..n |-> NoLoc]
  /\ res = [r \in 1..n |-> NoRes]
  /\ call = [fn |-> "none"]

\* one sign request, with every body of Bodies; with a single request the
\* clock decides nothing, and stays where it is
Init == InitWith(1, 1..MaxPages)

Next ==
  \/ \E r \in Reqs : Submit(r, Bodies)
  \/ \E r \in Reqs : Validate(r)
  \/ \E r \in Reqs : CheckSource(r)
  \/ \E r \in Reqs : ReadSource(r)
  \/ \E r \in Reqs : RenderField(r)
  \/ \E r \in Reqs : Serialize(r)
  \/ \E r \in Reqs : WriteSigned(r)
  \/ \E r \in Reqs : CopyPublic(r)
  \/ \E r \in Reqs : SaveAudit(r)
  \/ \E r \in Reqs : Respond(r)

Spec == Init /\ [][Next]_vars

\* NumConc sign requests in flight, with downloads and audit queries
InitConc == InitWith(NumConc, {1})

NextConc ==
  \/ \E r \in Reqs : Submit(r, ConcBodies)
  \/ \E r \in Reqs : Validate(r)
  \/ \E r \in Reqs : CheckSource(r)
  \/ \E r \in Reqs : ReadSource(r)
  \/ \E r \in Reqs : RenderField(r)
  \/ \E r \in Reqs : Serialize(r)
  \/ \E r \in Reqs : WriteSigned(r)
  \/ \E r \in Reqs : CopyPublic(r)
  \/ \E r \in Reqs : SaveAudit(r)
  \/ \E r \in Reqs : Respond(r)
  \/ Tick
  \/ \E name \in Names : Download(name)
  \/ \E id \in 1..NumConc : GetAudit(id)
  \/ ListAudits

SpecConc == InitConc /\ [][NextConc]_vars

(***************************************************************************)
(* Specifications of the helpers: the initial state draws the arguments,   *)
(* the one action applies the helper.                                      *)
(***************************************************************************)
Idle(n) ==
  /\ fs = [p \in Paths |-> IF p = originalPdfPath THEN SourceBytes(1) ELSE Absent]
  /\ now = 0
  /\ ledger = <<>>
  /\ pc = [r \in 1..n |-> "idle"]
  /\ body = [r \in 1..n |-> [pdfId |-> Undef, fields |-> Undef, signatureImage |-> Undef]]
  /\ loc = [r \in 1..n |-> NoLoc]
  /\ res = [r \in 1..n |-> NoRes]

\* what a member of a coordinates object may hold
MemberValues == {Undef, Null, Str("1")} \cup {Num(k) : k \in -1..(Denom + 1)}

CoordinateInputs ==
  {Undef, Null, Str("x"), Int2Num(1), Array(<<>>)}
  \cup {Coords(x, y, w, h, p) : x \in MemberValues, y \in MemberValues,
          w \in MemberValues, h \in MemberValues, p \in MemberValues}

InitValidate ==
  /\ Idle(1)
  /\ \E c \in CoordinateInputs :
        call = [fn |-> "validateCoordinates", arg |-> c, done |-> FALSE, ret |-> FALSE]

CallValidate ==
  /\ call.fn = "validateCoordinates" /\ ~call.done
  /\ call' = [call EXCEPT !.done = TRUE, !.ret = validateCoordinates(call.arg)]
  /\ UNCHANGED <<fs, now, ledger, pc, body, loc, res>>

NextValidate == CallValidate

SpecValidate == InitValidate /\ [][NextValidate]_vars

\* image sizes in pixels 1..MaxImage, box sizes k/10 for k in 1..MaxTenths
MaxImage == 7
MaxTenths == 7

\* the JSON number k/10: the binary64 nearest to it
Tenths(k) == FDiv(FromInt(k), FromInt(10))

InitFit ==
  /\ Idle(1)
  /\ \E iw \in 1..MaxImage, ih \in 1..MaxImage, bw \in 1..MaxTenths, bh \in 1..MaxTenths :
        call = [fn |-> "calculateImageDimensions",
                image |-> [width |-> iw, height |-> ih],
                maxWidth |-> Tenths(bw), maxHeight |-> Tenths(bh),
                done |-> FALSE,
                ret |-> [width |-> FZero, height |-> FZero,
                         xOffset |-> FZero, yOffset |-> FZero]]

CallFit ==
  /\ call.fn = "calculateImageDimensions" /\ ~call.done
  /\ call' = [call EXCEPT
                !.done = TRUE,
                !.ret = calculateImageDimensions(
                           [width |-> FromInt(call.image.width),
                            height |-> FromInt(call.image.height)],
                           call.maxWidth, call.maxHeight)]
  /\ UNCHANGED <<fs, now, ledger, pc, body, loc, res>>

NextFit == CallFit

SpecFit == InitFit /\ [][NextFit]_vars

\* the Audit model used directly: documents with and without metadata of the
\* caller's, with fields the schema accepts and fields it rejects
MaxLedger == 2

SuppliedMetadata ==
  [t |-> "object", v |-> [totalFields |-> 7, hasSignature |-> TRUE, pageCount |-> 0]]

AuditFieldPool ==
  { [type |-> "signature", coordinates |-> Box(Denom), value |-> Undef],
    [type |-> "text", coordinates |-> Box(Denom * (MaxPages + 1)), value |-> Str("Alice")],
    [type |-> "date", coordinates |-> Box(Denom + 1), value |-> Undef],
    [type |-> "radio", coordinates |-> Box(Denom - 1), value |-> Undef],
    [type |-> "checkbox", coordinates |-> Box(Denom), value |-> Undef] }

AuditDocs ==
  {[pdfId |-> Str("doc1"),
    originalHash |-> calculateSHA256(SourceBytes(1)),
    signedHash |-> calculateSHA256(PDFSave(PDFLoad(SourceBytes(1)))),
    fields |-> fl, timestamp |-> 0, ipAddress |-> "req.ip",
    userAgent |-> "User-Agent", metadata |-> md] :
      fl \in SeqsUpTo(AuditFieldPool, MaxFields), md \in {Undef, SuppliedMetadata}}

InitAudit ==
  /\ Idle(1)
  /\ call = [fn |-> "none"]

SaveDirect ==
  /\ Len(ledger) < MaxLedger
  /\ \E doc \in AuditDocs :
       /\ AuditSave(doc, TRUE)
       /\ call' = [fn |-> "Audit.save", metadata |-> doc.metadata,
                    saved |-> AuditSaved(doc, TRUE)]
  /\ UNCHANGED <<fs, now, pc, body, loc, res>>

NextAudit == SaveDirect

SpecAudit == InitAudit /\ [][NextAudit]_vars

(***************************************************************************)
(* The claims.                                                             *)
(***************************************************************************)
Items(r) == body[r].fields.items

\* a request the claim calls a client input error: no pdfId, fields that are
\* no list, or a field whose coordinates fail validateCoordinates
IsClientInputError(b) ==
  \/ ~Truthy(b.pdfId)
  \/ b.fields.t # "array"
  \/ \E i \in 1..Len(b.fields.items) :
        /\ b.fields.items[i].t = "object"
        /\ ~validateCoordinates(b.fields.items[i].pdfCoordinates)

NoSideEffects(r) ==
  /\ loc[r] = NoLoc
  /\ ledger = <<>>
  /\ \A p \in Paths \ {originalPdfPath} : fs[p] = Absent

\* C1: every request that is a client input error is answered 400 and has no
\* side effect: the source is not read, no field is rendered, no file is
\* written and no audit record is created
ClaimC1 ==
  \A r \in Reqs :
    (pc[r] # "idle" /\ IsClientInputError(body[r])) =>
       /\ NoSideEffects(r)
       /\ pc[r] \in {"start", "done"}
       /\ (pc[r] = "done" => res[r].status = 400)

\* C2: validateCoordinates returns true exactly for an object whose x, y,
\* width, height and page are all numbers with x >= 0, y >= 0, width > 0,
\* height > 0 and page >= 1, and false for every other input
ClaimC2 ==
  (call.fn = "validateCoordinates" /\ call.done) =>
     LET c == call.arg
         violated ==
           \/ c.t # "object"
           \/ \E m \in {c.x, c.y, c.width, c.height, c.page} : m.t # "number"
           \/ c.x.n < 0
           \/ c.y.n < 0
           \/ c.width.n <= 0
           \/ c.height.n <= 0
           \/ c.page.n < 1 * Denom
     IN call.ret = ~violated

WitnessC2 ==
  /\ call.fn = "validateCoordinates" /\ call.done /\ call.ret
  /\ call.arg.x = Num(0)
  /\ call.arg.page = Int2Num(1)
  /\ call.arg.width = Num(1)

\* C3: every persisted audit record has metadata.totalFields = the number of
\* its fields, metadata.hasSignature = some field is a signature, and
\* metadata.pageCount = the largest page of its fields, 1 without fields,
\* whatever metadata the caller supplied
ClaimC3 ==
  \A i \in 1..Len(ledger) :
    LET a == ledger[i]
    IN /\ a.metadata.totalFields = Len(a.fields)
       /\ a.metadata.hasSignature =
            (\E j \in 1..Len(a.fields) : a.fields[j].type = "signature")
       /\ a.metadata.pageCount =
            IF a.fields = <<>> THEN 1 * Denom
            ELSE SetMax({a.fields[j].coordinates.page.n : j \in 1..Len(a.fields)})

WitnessC3 ==
  /\ call.fn = "Audit.save" /\ call.saved
  /\ call.metadata = SuppliedMetadata
  /\ Len(ledger) = MaxLedger
  /\ ledger[1].fields = <<>>
  /\ Len(ledger[Len(ledger)].fields) = MaxFields
  /\ ledger[Len(ledger)].metadata.pageCount = Denom * (MaxPages + 1)
  /\ ~ledger[Len(ledger)].metadata.hasSignature

\* C4: for every validated field and loaded document the selected page is
\* min(page - 1, totalPages - 1) and exists: a page in range selects that
\* page, a page beyond the last selects the last page
ClaimC4 ==
  \A r \in Reqs :
    (pc[r] = "render" /\ loc[r].idx <= Len(Items(r))) =>
       LET page == Items(r)[loc[r].idx].pdfCoordinates.page
           n == loc[r].pdfDoc.pages
           index == pageIndex(page, n)
       IN /\ PageDefined(index, n)
          /\ (page.n <= n * Denom => index = page.n - Denom)
          /\ (page.n > n * Denom => index = (n - 1) * Denom)

HasFilename(r) == loc[r].signedPdfBytes # Absent

\* C5: no two sign requests write their output under the same file name
ClaimC5 ==
  \A r1 \in Reqs, r2 \in Reqs :
    (r1 # r2 /\ HasFilename(r1) /\ HasFilename(r2)) =>
       loc[r1].signedPdfFilename # loc[r2].signedPdfFilename

Rank(p) ==
  CASE p = "idle" -> 0
    [] p = "start" -> 1
    [] p = "pathExists" -> 2
    [] p = "readFile" -> 3
    [] p = "render" -> 4
    [] p = "writeFile" -> 5
    [] p = "copy" -> 6
    [] p = "audit" -> 7
    [] p = "respond" -> 8
    [] p = "done" -> 9

\* the drawing operations of the first n fields, in list order
RECURSIVE RenderedOps(_, _)
RenderedOps(r, n) ==
  IF n = 0 THEN <<>>
  ELSE RenderedOps(r, n - 1)
       \o FieldOps(Items(r)[n], body[r].signatureImage,
                   pageIndex(Items(r)[n].pdfCoordinates.page, loc[r].pdfDoc.pages)
                      \div Denom)

SignedPath(r) == PathJoin(SIGNED_DIR, loc[r].signedPdfFilename)
PublicPath(r) == PathJoin(PUBLIC_DIR, loc[r].signedPdfFilename)

\* what has happened by the time a request stands at each stage
C6Stage(r) ==
  /\ Rank(pc[r]) <= 3 => loc[r] = NoLoc
  /\ Rank(pc[r]) \in 4..8 =>
        /\ ~IsClientInputError(body[r])
        /\ loc[r].originalHash = calculateSHA256(fs[originalPdfPath])
        /\ loc[r].idx \in 1..(Len(Items(r)) + 1)
        /\ loc[r].pdfDoc.ops = RenderedOps(r, loc[r].idx - 1)
  /\ pc[r] = "render" => ~HasFilename(r)
  /\ Rank(pc[r]) \in 5..8 =>
        /\ loc[r].idx = Len(Items(r)) + 1
        /\ loc[r].signedPdfBytes = PDFSave(loc[r].pdfDoc)
        /\ loc[r].signedHash = calculateSHA256(loc[r].signedPdfBytes)
  /\ pc[r] = "writeFile" => fs[SignedPath(r)] = Absent /\ fs[PublicPath(r)] = Absent
  /\ pc[r] = "copy" => fs[SignedPath(r)] = loc[r].signedPdfBytes /\ fs[PublicPath(r)] = Absent
  /\ Rank(pc[r]) \in 7..8 =>
        fs[SignedPath(r)] = loc[r].signedPdfBytes /\ fs[PublicPath(r)] = loc[r].signedPdfBytes
  /\ Rank(pc[r]) <= 7 => loc[r].auditId = 0 /\ ledger = <<>>
  /\ Rank(pc[r]) <= 8 => res[r] = NoRes
  /\ pc[r] = "respond" => loc[r].auditId = 1 /\ Len(ledger) = 1

\* how a request ends
C6End(r) ==
  pc[r] = "done" =>
     /\ res[r].status \in {200, 400, 404, 500}
     /\ res[r].status = 200 =>
          /\ Len(ledger) = 1
          /\ res[r].auditId = 1
          /\ ledger[1].originalHash = res[r].originalHash
          /\ ledger[1].signedHash = res[r].signedHash
          /\ res[r].originalHash = calculateSHA256(fs[originalPdfPath])
          /\ res[r].signedHash = calculateSHA256(fs[PathJoin(SIGNED_DIR, res[r].signedPdfUrl)])
          /\ fs[PathJoin(PUBLIC_DIR, res[r].signedPdfUrl)] =
               fs[PathJoin(SIGNED_DIR, res[r].signedPdfUrl)]
     /\ res[r].status # 200 => ledger = <<>>

\* no stage is entered again, and the fields are rendered one after the other
C6Order ==
  \A r \in Reqs :
    /\ Rank(pc'[r]) >= Rank(pc[r])
    /\ Rank(pc'[r]) <= Rank(pc[r]) + 1 \/ pc'[r] = "done"
    /\ (pc[r] = "render" /\ pc'[r] = "render" /\ loc'[r] # loc[r]) =>
          loc'[r].idx = loc[r].idx + 1

\* C6: within one sign request the stages follow one another in the order
\* validate, load and hash source, render the fields in list order,
\* serialize, hash output, write the signed file, copy it to the public
\* location, persist the audit record, respond; a success response follows
\* the audit record, whose hashes are the response's; a run that ends in an
\* error creates no audit record
ClaimC6 ==
  /\ [](\A r \in Reqs : C6Stage(r) /\ C6End(r))
  /\ [][C6Order]_vars

WitnessC6 ==
  \E r \in Reqs :
    /\ pc[r] = "done" /\ res[r].status = 200
    /\ Len(Items(r)) = MaxFields
    /\ Len(loc[r].pdfDoc.ops) >= 3
    /\ Len(ledger) = 1

BadImage(r) == Truthy(body[r].signatureImage) /\ ~EmbedOk(body[r].signatureImage)

Labels(ops, kind, text) ==
  Cardinality({i \in 1..Len(ops) : ops[i].kind = kind /\ ops[i].text = text})

Signatures(items, n) ==
  Cardinality({i \in 1..n : items[i].type = "signature"})

\* C7: when the signature image fails to decode or embed, a signature field
\* is drawn as the placeholder labelled SIGNATURE and never fails the
\* request; without an image a signature field draws nothing
ClaimC7 ==
  \A r \in Reqs :
    loc[r].idx >= 1 =>
       /\ BadImage(r) =>
            /\ Labels(loc[r].pdfDoc.ops, "drawText", "SIGNATURE") =
                 Signatures(Items(r), loc[r].idx - 1)
            /\ ~(/\ res[r].status = 500
                 /\ loc[r].idx <= Len(Items(r))
                 /\ Items(r)[loc[r].idx].type = "signature")
       /\ ~Truthy(body[r].signatureImage) =>
            /\ Labels(loc[r].pdfDoc.ops, "drawText", "SIGNATURE") = 0
            /\ Labels(loc[r].pdfDoc.ops, "drawImage", "") = 0

\* C8: an audit record stores the request's fields in order, type and
\* coordinates as given, the value of a text field, and for a field of any
\* other type neither its value nor the signature image
ClaimC8 ==
  \A r \in Reqs :
    loc[r].auditId # 0 =>
       LET stored == ledger[loc[r].auditId].fields
       IN /\ Len(stored) = Len(Items(r))
          /\ \A i \in 1..Len(stored) :
               /\ stored[i].type = Items(r)[i].type
               /\ stored[i].coordinates = Items(r)[i].pdfCoordinates
               /\ stored[i].value # body[r].signatureImage
               /\ stored[i].type = "text" =>
                    stored[i].value = IF Items(r)[i].value = Undef THEN Str("")
                                      ELSE Items(r)[i].value
               /\ stored[i].type # "text" => stored[i].value = Str("")

WitnessC8 ==
  \E r \in Reqs :
    /\ loc[r].auditId # 0
    /\ Truthy(body[r].signatureImage)
    /\ \E i \in 1..Len(Items(r)) :
         Items(r)[i].type = "signature" /\ Truthy(Items(r)[i].value)
    /\ \E i \in 1..Len(Items(r)) :
         Items(r)[i].type = "text" /\ Truthy(Items(r)[i].value)

\* -1, 0, 1 as x < y, x = y, x > y, for positive x and y whose significands
\* need not be normalised
ExactCmp(x, y) ==
  BCmp(BShl(x.m, x.e - SeqMin(x.e, y.e)), BShl(y.m, y.e - SeqMin(x.e, y.e)))

\* w / h is the ratio iw / ih up to a relative error of 2^-50
AspectClose(w, h, iw, ih) ==
  LET d == FSub(FDiv(w, h), FDiv(iw, ih))
      tolerance == [FDiv(iw, ih) EXCEPT !.e = @ - 50]
  IN d.s = 0 \/ FCmpAbs(d, tolerance) <= 0

\* C9: for a positive image size and a positive box, the result fits in the
\* box (width <= maxWidth, height <= maxHeight), keeps the image's aspect
\* ratio, has the width clamped when the image is relatively wider than the
\* box and the height otherwise, and centres the image with offsets
\* (maxWidth - width)/2 >= 0 and (maxHeight - height)/2 >= 0
ClaimC9 ==
  (call.fn = "calculateImageDimensions" /\ call.done) =>
     LET r == call.ret
         iw == FromInt(call.image.width)
         ih == FromInt(call.image.height)
         wider == ExactCmp(FMulExact(iw, call.maxHeight),
                           FMulExact(call.maxWidth, ih)) > 0
     IN /\ FCmp(r.width, call.maxWidth) <= 0
        /\ FCmp(r.height, call.maxHeight) <= 0
        /\ AspectClose(r.width, r.height, iw, ih)
        /\ wider => r.width = call.maxWidth
        /\ ~wider => r.height = call.maxHeight
        /\ r.xOffset = FHalf(FSub(call.maxWidth, r.width))
        /\ r.yOffset = FHalf(FSub(call.maxHeight, r.height))
        /\ FCmp(r.xOffset, FZero) >= 0
        /\ FCmp(r.yOffset, FZero) >= 0

\* C10: the source document's bytes never change: every file the pipeline
\* writes has another name, and every audit record's originalHash is the
\* digest of the source as it was from the start
ClaimC10 ==
  /\ [][fs'[originalPdfPath] = fs[originalPdfPath]]_vars
  /\ [](\A r \in Reqs : HasFilename(r) => loc[r].signedPdfFilename # SampleName)
  /\ [](\A i \in 1..Len(ledger) :
          ledger[i].originalHash = calculateSHA256(fs[originalPdfPath]))
  /\ [](fs[originalPdfPath].kind \in {"absent", "source"})

WitnessC10 ==
  /\ Len(ledger) = NumConc
  /\ \A r \in Reqs : pc[r] = "done" /\ res[r].status = 200
  /\ \E t \in 0..MaxClock : fs[PathJoin(PUBLIC_DIR, signedPdfFilename(t))] # Absent
  /\ fs[originalPdfPath] = SourceBytes(1)

====
